---- MODULE Spec2Model ----
(***************************************************************************)
(* Event tracking ledger (src/core/tracking.py) and the alert run that     *)
(* drives it (src/core/base_alert.py) of the passage-plan alert system.    *)
(*                                                                         *)
(* Spec        : the process of src/main.py: start (EventTracker load),    *)
(*               alert runs (fetch, dedup filter, route, send, commit),    *)
(*               clock ticks and process exits.                            *)
(* TrackerSpec : EventTracker driven through its public interface by an    *)
(*               arbitrary caller (as tests/test_tracking.py does).        *)
(* SchedulerSpec     : AlertScheduler (src/core/scheduler.py) with its     *)
(*               registered runners taken as opaque calls that return or   *)
(*               raise, and the signal handler firing at any step.         *)
(* SchedulerLiveSpec : SchedulerSpec with weak fairness of the scheduler's *)
(*               own steps.                                                *)
(* RoutingSpec : route_notifications and _get_cc_recipients over routing   *)
(*               tables of the configuration.                              *)
(* KeySpec     : get_tracking_key of both alert types applied to the rows  *)
(*               of successive fetches.                                    *)
(* WritersSpec : two processes, each with its own EventTracker, marking    *)
(*               and saving on one tracking file.                          *)
(* RetrySpec   : Spec started on a new tracking file, with the keys of     *)
(*               failed jobs kept as a history.                            *)
(***************************************************************************)
EXTENDS Integers, Sequences, FiniteSets, TLC

\* ------------------------------------------------------------------ bounds
MaxTime == 3
WindowDays == 2
MaxBatch == 2
MaxRoutes == 2
MaxAlerts == 2
MaxRows == 2
MaxCycles == 2
SleepTicks == 1

\* ------------------------------------------------------------- data model
None == -1
NoTime == -1

Times == 0..MaxTime

\* rows of the query result: the identifying columns of a passage plan and
\* one column that changes between fetches
\* an email address or a domain is a text, kept as the sequence of its parts
SerifosEmail == <<"serifos.i", "@", "vsl", "prominencemaritime", "com">>
AgriaEmail == <<"agria", "@", "vsl", "ProminenceMaritime", "com">>

Records ==
  { [vessel_id |-> 101, vsl_email |-> SerifosEmail,
     event_type_id |-> 37, event_id |-> 201, status |-> "for-review"],
    [vessel_id |-> 101, vsl_email |-> SerifosEmail,
     event_type_id |-> 37, event_id |-> 201, status |-> "approved"],
    [vessel_id |-> 102, vsl_email |-> AgriaEmail,
     event_type_id |-> 37, event_id |-> 203, status |-> "for-review"] }

\* a key that also renders a column that changes between fetches
get_tracking_key_with_status(row) ==
  <<"vessel_id_", row.vessel_id, "__event_type_", row.event_type_id,
    "__event_id_", row.event_id, "__status_", row.status>>

\* PassagePlanAlert.get_tracking_key: the f-string, as its literal pieces
\* and the values rendered between them
get_tracking_key(row) ==
  <<"vessel_id_", row.vessel_id, "__event_type_", row.event_type_id,
    "__event_id_", row.event_id>>

\* VesselDocumentsAlert.get_tracking_key
VesselDocuments_get_tracking_key(row) ==
  <<"vessel_", row.vessel_id, "_doc_", row.document_id>>

Keys == { get_tracking_key(r) : r \in Records }

\* the bound method handed to the filter as key_func
KeyFunc == [r \in Records |-> get_tracking_key(r)]

\* datetime.isoformat() / datetime.fromisoformat(): a timestamp string is
\* either the ISO rendering of an aware instant or text that does not parse.
isoformat(t) == <<"iso", t>>
BadStamp == <<"garbage", 0>>
Parses(s) == s[1] = "iso"
fromisoformat(s) == s[2]

Stamps == { isoformat(t) : t \in Times } \cup {BadStamp}

EmptyLedger == [k \in {} |-> BadStamp]

\* ------------------------------------------------------------- the file
\* content of a path: missing, unparseable bytes, or a JSON object
MissingFile == [kind |-> "missing", sent_events |-> EmptyLedger, sent_event_ids |-> {}, last_updated |-> 0]
CorruptFile == [kind |-> "corrupt", sent_events |-> EmptyLedger, sent_event_ids |-> {}, last_updated |-> 0]

\* json.dump of {'sent_events': ..., 'last_updated': now.isoformat()}
JsonDump(events, t) ==
  [kind |-> "json", sent_events |-> events, sent_event_ids |-> {}, last_updated |-> t]

SomeKey == CHOOSE k \in Keys : TRUE
OtherKey == CHOOSE k \in Keys : k # SomeKey

\* files the process may find at its first start
InitFiles ==
  { MissingFile,
    CorruptFile,
    [kind |-> "json", sent_events |-> EmptyLedger, sent_event_ids |-> {SomeKey}, last_updated |-> 0],
    [kind |-> "json", sent_events |-> (SomeKey :> isoformat(0)) @@ (OtherKey :> BadStamp),
     sent_event_ids |-> {}, last_updated |-> 0] }

VARIABLES
  now,                      \* the clock (days)
  reminder_frequency_days,  \* EventTracker.reminder_frequency_days, None or a number
  config,                   \* AlertConfig switches read by the run
  file,                     \* content of tracking_file
  tmp,                      \* content of the temporary file of the save in progress
  pc,                       \* control position of the process
  caller,                   \* which operation called _save
  sent_events,              \* EventTracker.sent_events
  call,                     \* last tracker operation, its arguments and how it ended
  pre_events,               \* sent_events when the last mark_as_sent or filter began
  marked,                   \* key -> timestamp of the last mark_as_sent that returned
  read_events,              \* sent_events_data of the last _load: what it read from the file
  batch,                    \* df handed to filter_unsent_events (df_filtered of the run)
  unsent,                   \* its result (df_unsent)
  run_time,                 \* run_time of BaseAlert.run
  run_result,               \* "none", "running", or what the last run returned
  jobs,                     \* notification_jobs of the run
  jobIdx,                   \* position of the loop of _send_notifications
  sent_keys,                \* sent_keys of _send_notifications
  any_sent,                 \* any_sent of _send_notifications
  outcomes,                 \* how each job of the run ended: "sent", "prepared", "raised"
  lastDispatch,             \* key -> run_time of the last returned run whose email carried it
  done_batch,               \* batch of the last run that sent every job and committed
  last_email,               \* the message the run last handed to SMTP
  failed_keys,              \* history kept in RetrySpec: keys of jobs that raised in a run of
                            \* this process and were not sent since
  email_routing,            \* AlertConfig.email_routing: domain -> {cc: [...]}, in dict order
  internal_recipients,      \* AlertConfig.internal_recipients
  alerts,                   \* AlertScheduler._alerts
  mode,                     \* "once" (run_once) or "continuous" (run_continuous)
  shutdown_event,           \* AlertScheduler.shutdown_event (is it set)
  spc,                      \* control position of the scheduler
  idx,                      \* position of the loop of _run_all_alerts
  invoked,                  \* the runners started in the current cycle and how each ended
  cycles,                   \* cycles started so far (saturates at MaxCycles)
  slept,                    \* time spent in the wait in progress
  exit_at,                  \* the statement at which run_once or run_continuous ended
  row_keys,                 \* what get_tracking_key returned for each row of the frame it was last applied to
  writers                   \* the processes that share the tracking file: each one's tracker and save

fileVars == <<file, tmp>>
cfgVars == <<reminder_frequency_days, config, email_routing, internal_recipients>>
runVars == <<run_time, run_result, jobs, jobIdx, sent_keys, any_sent, outcomes,
             lastDispatch, done_batch, last_email, failed_keys>>
schedVars == <<alerts, mode, shutdown_event, spc, idx, invoked, cycles, slept, exit_at>>
filterVars == <<batch, unsent>>
otherVars == <<row_keys, writers>>

vars == <<now, reminder_frequency_days, config, file, tmp, pc, caller, sent_events, call,
          pre_events, marked, read_events, batch, unsent, run_time, run_result, jobs,
          jobIdx, sent_keys, any_sent, outcomes, lastDispatch, done_batch, last_email, failed_keys,
          email_routing, internal_recipients,
          alerts, mode, shutdown_event, spc, idx, invoked, cycles, slept, exit_at,
          row_keys, writers>>

NoCall == [op |-> "none", raised |-> FALSE, writeFailed |-> FALSE, at |-> 0, keys |-> {}]
CallOf(op, raised, writeFailed, at, keys) ==
  [op |-> op, raised |-> raised, writeFailed |-> writeFailed, at |-> at, keys |-> keys]
NoRead == [kind |-> "none", data |-> EmptyLedger]
NoEmail == [to |-> <<>>, cc |-> {}]

SavePcs == {"save_mkstemp", "save_dump", "save_move"}

BoolStr(b) == IF b THEN "true" ELSE "false"

\* ------------------------------------------------------------ EventTracker

\* the eviction loop of _load: keep the entries whose timestamp parses and
\* is not older than the cutoff
NotExpired(stamp, cutoff) ==
  /\ Parses(stamp)
  /\ fromisoformat(stamp) >= cutoff

FilterEvents(data, cutoff) ==
  LET keep == { k \in DOMAIN data : NotExpired(data[k], cutoff) }
  IN  [k \in keep |-> data[k]]

\* sent_events_data as _load reads it, the legacy list converted
LoadedData(f, t) ==
  IF f.sent_events = EmptyLedger /\ f.sent_event_ids # {}
  THEN [k \in f.sent_event_ids |-> isoformat(t)]
  ELSE f.sent_events

ReadEvents(f, t) ==
  IF f.kind # "json" THEN NoRead
  ELSE [kind |-> IF f.sent_events = EmptyLedger /\ f.sent_event_ids # {} THEN "legacy" ELSE "json",
        data |-> LoadedData(f, t)]

is_sent(event_key) == event_key \in DOMAIN sent_events

\* a _load without the handler for unparseable content: the constructor raises
LoadRaisesOnCorrupt ==
  /\ pre_events' = EmptyLedger
  /\ read_events' = ReadEvents(file, now)
  /\ IF file.kind = "corrupt"
     THEN /\ sent_events' = EmptyLedger
          /\ pc' = "down"
          /\ call' = CallOf("load", TRUE, FALSE, now, {})
          /\ UNCHANGED caller
     ELSE IF file.kind = "missing"
     THEN /\ sent_events' = EmptyLedger
          /\ pc' = "idle"
          /\ call' = CallOf("load", FALSE, FALSE, now, {})
          /\ UNCHANGED caller
     ELSE LET data == LoadedData(file, now)
              filtered == IF reminder_frequency_days # None
                          THEN FilterEvents(data, now - reminder_frequency_days)
                          ELSE data
          IN  /\ sent_events' = filtered
              /\ IF DOMAIN filtered # DOMAIN data
                 THEN /\ pc' = "save_mkstemp"
                      /\ caller' = "load"
                      /\ call' = CallOf("load_saving", FALSE, FALSE, now, {})
                 ELSE /\ pc' = "idle"
                      /\ call' = CallOf("load", FALSE, FALSE, now, {})
                      /\ UNCHANGED caller
  /\ UNCHANGED <<now, cfgVars, schedVars, otherVars, fileVars, marked>>

\* EventTracker.__init__ / _load up to the point where it returns or saves
Load ==
  /\ pre_events' = EmptyLedger
  /\ read_events' = ReadEvents(file, now)
  /\ IF file.kind # "json"
     THEN \* missing file, or JSONDecodeError: start fresh
          /\ sent_events' = EmptyLedger
          /\ pc' = "idle"
          /\ call' = CallOf("load", FALSE, FALSE, now, {})
          /\ UNCHANGED caller
     ELSE LET data == LoadedData(file, now) IN
          IF reminder_frequency_days # None
          THEN LET filtered == FilterEvents(data, now - reminder_frequency_days) IN
               /\ sent_events' = filtered
               /\ IF DOMAIN filtered # DOMAIN data
                  THEN \* removed_count > 0: save cleaned data immediately
                       /\ pc' = "save_mkstemp"
                       /\ caller' = "load"
                       /\ call' = CallOf("load_saving", FALSE, FALSE, now, {})
                  ELSE /\ pc' = "idle"
                       /\ call' = CallOf("load", FALSE, FALSE, now, {})
                       /\ UNCHANGED caller
          ELSE /\ sent_events' = data
               /\ pc' = "idle"
               /\ call' = CallOf("load", FALSE, FALSE, now, {})
               /\ UNCHANGED caller
  /\ UNCHANGED <<now, cfgVars, schedVars, otherVars, fileVars, marked>>

\* mark_as_sent that leaves the timestamp of a key it already holds
MarkAsSentBodyKeepsOld(event_keys, timestamp) ==
  sent_events' = [k \in DOMAIN sent_events \cup event_keys |->
                    IF k \in DOMAIN sent_events THEN sent_events[k] ELSE isoformat(timestamp)]

\* mark_as_sent that refreshes the keys it holds and adds none
MarkAsSentBodyAddsNone(event_keys, timestamp) ==
  sent_events' = [k \in DOMAIN sent_events |->
                    IF k \in event_keys THEN isoformat(timestamp) ELSE sent_events[k]]

\* mark_as_sent: the loop that writes the timestamp under every key
MarkAsSentBody(event_keys, timestamp) ==
  sent_events' = [k \in DOMAIN sent_events \cup event_keys |->
                    IF k \in event_keys THEN isoformat(timestamp) ELSE sent_events[k]]

\* mark_as_sent up to its call of _save
MarkAsSent(event_keys, timestamp) ==
  /\ pre_events' = sent_events
  /\ MarkAsSentBody(event_keys, timestamp)
  /\ pc' = "save_mkstemp"
  /\ caller' = "mark"
  /\ call' = CallOf("mark_saving", FALSE, FALSE, timestamp, event_keys)
  /\ read_events' = NoRead
  /\ UNCHANGED <<now, cfgVars, schedVars, otherVars, fileVars, marked>>

\* the tracking keys of the rows of a notification job
JobKeys(job) == { get_tracking_key(job.data[i]) : i \in 1..Len(job.data) }

\* the locals of a run are gone once it has returned
EndRun(result) ==
  /\ run_result' = BoolStr(result)
  /\ jobs' = <<>>
  /\ jobIdx' = 0
  /\ sent_keys' = {}
  /\ any_sent' = FALSE
  /\ outcomes' = <<>>
  /\ last_email' = NoEmail
  /\ failed_keys' =
       IF failed_keys.recorded
       THEN [failed_keys EXCEPT !.keys =
               (@ \cup UNION { JobKeys(jobs[i]) :
                                 i \in { j \in 1..Len(outcomes) : outcomes[j] = "raised" } })
                 \ UNION { JobKeys(jobs[i]) :
                             i \in { j \in 1..Len(outcomes) : outcomes[j] = "sent" } }]
       ELSE failed_keys
  /\ lastDispatch' = [k \in Keys |->
                        IF \E i \in 1..Len(outcomes) :
                             outcomes[i] = "sent" /\ k \in JobKeys(jobs[i])
                        THEN run_time ELSE lastDispatch[k]]
  /\ UNCHANGED run_time

\* BaseAlert.run after mark_as_sent returned (saved) or raised
RunAfterSave(saved) ==
  IF run_result = "running"
  THEN /\ EndRun(saved /\ any_sent)
       /\ done_batch' = IF saved /\ (\A i \in 1..Len(outcomes) : outcomes[i] = "sent")
                        THEN batch ELSE done_batch
       /\ batch' = <<>>
       /\ unsent' = <<>>
  ELSE UNCHANGED <<runVars, filterVars>>

\* a save that opens the target itself for writing
SaveOpensTarget ==
  /\ pc = "save_mkstemp"
  /\ file' = CorruptFile
  /\ pc' = "save_dump"
  /\ UNCHANGED <<now, cfgVars, schedVars, otherVars, tmp, caller, sent_events, call, pre_events, marked,
                 read_events, runVars, filterVars>>

\* _save, step 1: tempfile.mkstemp creates an empty file next to the target
SaveMkstemp ==
  /\ pc = "save_mkstemp"
  /\ tmp' = CorruptFile
  /\ pc' = "save_dump"
  /\ UNCHANGED <<now, cfgVars, schedVars, otherVars, file, caller, sent_events, call, pre_events, marked,
                 read_events, runVars, filterVars>>

\* _save, step 2: json.dump writes the whole ledger into the temporary file
SaveDump ==
  /\ pc = "save_dump"
  /\ tmp' = JsonDump(sent_events, now)
  /\ pc' = "save_move"
  /\ UNCHANGED <<now, cfgVars, schedVars, otherVars, file, caller, sent_events, call, pre_events, marked,
                 read_events, runVars, filterVars>>

\* what the caller of _save does once _save has returned
SaveReturn ==
  IF caller = "mark"
  THEN /\ call' = CallOf("mark", FALSE, FALSE, call.at, call.keys)
       /\ marked' = [k \in Keys |-> IF k \in call.keys THEN call.at ELSE marked[k]]
  ELSE /\ call' = CallOf("load", FALSE, FALSE, call.at, {})
       /\ UNCHANGED marked

\* _save, step 3: shutil.move renames the temporary file over the target
SaveMove ==
  /\ pc = "save_move"
  /\ file' = tmp
  /\ tmp' = MissingFile
  /\ pc' = "idle"
  /\ SaveReturn
  /\ RunAfterSave(TRUE)
  /\ UNCHANGED <<now, cfgVars, schedVars, otherVars, caller, sent_events, pre_events, read_events>>

\* what the caller of _save does with the exception _save re-raises
SaveRaise ==
  IF caller = "mark"
  THEN \* mark_as_sent has no handler: the exception leaves it
       /\ call' = CallOf("mark", TRUE, TRUE, call.at, call.keys)
       /\ UNCHANGED sent_events
  ELSE \* _load: "except Exception" around the whole body
       /\ call' = CallOf("load", FALSE, TRUE, call.at, {})
       /\ sent_events' = EmptyLedger

\* _save fails at any of its steps (OSError): the temporary file, if any, is
\* unlinked and the exception is re-raised
SaveFail ==
  /\ pc \in SavePcs
  /\ tmp' = MissingFile
  /\ pc' = "idle"
  /\ SaveRaise
  /\ RunAfterSave(FALSE)
  /\ UNCHANGED <<now, cfgVars, schedVars, otherVars, file, caller, pre_events, marked, read_events>>

\* ------------------------------------------------------ dedup filter

\* a filter whose mask is not negated
FilterUnsentKeepsSent(df, key_func) ==
  SelectSeq(df, LAMBDA r : key_func[r] \in DOMAIN sent_events)

\* filter_unsent_events: keys of all rows, mask of the rows whose key is
\* not among the ledger's keys, rows under the mask
FilterUnsent(df, key_func) ==
  IF df = <<>>
  THEN df
  ELSE LET tracking_keys == [i \in 1..Len(df) |-> key_func[df[i]]]
           unsent_mask == [i \in 1..Len(df) |-> ~(tracking_keys[i] \in DOMAIN sent_events)]
           Pick[i \in 0..Len(df)] ==
             IF i = 0 THEN <<>>
             ELSE IF unsent_mask[i] THEN Append(Pick[i-1], df[i]) ELSE Pick[i-1]
       IN  Pick[Len(df)]

Batches == UNION { [1..n -> Records] : n \in 0..MaxBatch }

\* ------------------------------------------------------------ environment

\* a day passes (between operations: a run or a save takes no time at this
\* granularity)
Tick ==
  /\ now < MaxTime
  /\ pc \in {"down", "idle"}
  /\ now' = now + 1
  /\ UNCHANGED <<cfgVars, schedVars, otherVars, fileVars, pc, caller, sent_events, call, pre_events, marked,
                 read_events, runVars, filterVars>>

\* the process dies (kill, power loss) or exits: memory is lost, files stay
Crash ==
  /\ pc # "down"
  /\ pc' = "down"
  /\ sent_events' = EmptyLedger
  /\ pre_events' = EmptyLedger
  /\ call' = CallOf(IF pc \in SavePcs THEN "killed_in_save" ELSE "none", FALSE, FALSE, 0, {})
  /\ tmp' = IF pc \in SavePcs THEN tmp ELSE MissingFile
  /\ read_events' = NoRead
  /\ batch' = <<>>
  /\ unsent' = <<>>
  /\ run_result' = "none"
  /\ jobs' = <<>>
  /\ jobIdx' = 0
  /\ sent_keys' = {}
  /\ any_sent' = FALSE
  /\ outcomes' = <<>>
  /\ done_batch' = <<>>
  /\ last_email' = NoEmail
  /\ failed_keys' = [failed_keys EXCEPT !.keys = {}]
  /\ UNCHANGED <<now, cfgVars, schedVars, otherVars, file, caller, marked, run_time, lastDispatch>>

\* ------------------------------------------------------ configurations

\* DRY_RUN_EMAIL: the empty text, or the address all emails are redirected to
NoAddress == <<>>
DryRunEmail == <<"dryrun", "@", "test", "com">>

NormalConfig == [enable_email_alerts |-> TRUE, dry_run |-> FALSE, dry_run_email |-> NoAddress]
RedirectConfig == [enable_email_alerts |-> TRUE, dry_run |-> TRUE, dry_run_email |-> DryRunEmail]
BlockedConfig == [enable_email_alerts |-> FALSE, dry_run |-> TRUE, dry_run_email |-> NoAddress]
\* a dry run without redirect address whose config still has email alerts
\* enabled (a config built without main's switch): only the EmailSender's
\* own check stands between the run and SMTP
UnguardedConfig == [enable_email_alerts |-> TRUE, dry_run |-> TRUE, dry_run_email |-> NoAddress]

\* EMAIL_ROUTING and INTERNAL_RECIPIENTS of the deployment
OpsEmail == <<"ops", "@", "prominencemaritime", "com">>
TechEmail == <<"tech", "@", "seatraders", "com">>
InternalEmail == <<"internal", "@", "prominencemaritime", "com">>
DefaultRouting ==
  << [domain |-> <<"prominencemaritime", "com">>, cc |-> {OpsEmail}],
     [domain |-> <<"seatraders", "com">>, cc |-> {TechEmail}] >>
DefaultInternal == {InternalEmail}

\* the processes that may run on one tracking file, and one that is not running
Writers == {"p1", "p2"}
WriterDown ==
  [pc |-> "down", sent_events |-> EmptyLedger, tmp |-> MissingFile, keys |-> {}, returned |-> {}]

\* the history of failed jobs, where it is not kept and where it begins
NotRecorded == [recorded |-> FALSE, keys |-> {}]
NoneFailed == [recorded |-> TRUE, keys |-> {}]

\* the scheduler before main has created it
SchedulerOff ==
  /\ alerts = <<>>
  /\ mode = "none"
  /\ shutdown_event = FALSE
  /\ spc = "off"
  /\ idx = 0
  /\ invoked = <<>>
  /\ cycles = 0
  /\ slept = 0
  /\ exit_at = "none"

InitCommon ==
  /\ now = 0
  /\ reminder_frequency_days \in {None, WindowDays}
  /\ file \in InitFiles
  /\ tmp = MissingFile
  /\ pc = "down"
  /\ caller = "load"
  /\ sent_events = EmptyLedger
  /\ call = NoCall
  /\ pre_events = EmptyLedger
  /\ marked = [k \in Keys |-> NoTime]
  /\ read_events = NoRead
  /\ batch = <<>>
  /\ unsent = <<>>
  /\ run_time = 0
  /\ run_result = "none"
  /\ jobs = <<>>
  /\ jobIdx = 0
  /\ sent_keys = {}
  /\ any_sent = FALSE
  /\ outcomes = <<>>
  /\ lastDispatch = [k \in Keys |-> NoTime]
  /\ done_batch = <<>>
  /\ last_email = NoEmail
  /\ row_keys = <<>>
  /\ writers = [p \in Writers |-> WriterDown]

\* ------------------------------------------------------ TrackerSpec

TInit ==
  /\ InitCommon
  /\ failed_keys = NotRecorded
  /\ config = NormalConfig
  /\ email_routing = DefaultRouting
  /\ internal_recipients = DefaultInternal
  /\ SchedulerOff

\* a new EventTracker on the same file
TLoad ==
  /\ pc \in {"down", "idle"}
  /\ Load
  /\ batch' = <<>>
  /\ unsent' = <<>>
  /\ UNCHANGED runVars

TMark ==
  /\ pc = "idle"
  /\ \E event_keys \in SUBSET Keys : MarkAsSent(event_keys, now)
  /\ batch' = <<>>
  /\ unsent' = <<>>
  /\ UNCHANGED runVars

TFilter ==
  /\ pc = "idle"
  /\ \E df \in Batches :
       /\ batch' = df
       /\ unsent' = FilterUnsent(df, KeyFunc)
  /\ pre_events' = sent_events
  /\ call' = CallOf("filter", FALSE, FALSE, now, {})
  /\ read_events' = NoRead
  /\ UNCHANGED <<now, cfgVars, schedVars, otherVars, fileVars, pc, caller, sent_events, marked, runVars>>

TNext ==
  \/ TLoad
  \/ TMark
  \/ TFilter
  \/ SaveMkstemp
  \/ SaveDump
  \/ SaveMove
  \/ SaveFail
  \/ Tick
  \/ Crash

TrackerSpec == TInit /\ [][TNext]_vars

\* ------------------------------------------------------ BaseAlert.run

\* route_notifications: one job per vessel, vessels in ascending order
\* (groupby sorts its groups), each with its rows in their order in df
RECURSIVE SortedSeq(_)
SortedSeq(S) ==
  IF S = {} THEN <<>>
  ELSE LET m == CHOOSE x \in S : \A y \in S : x <= y
       IN  <<m>> \o SortedSeq(S \ {m})

\* str.lower() of a text
lower_part(t) ==
  CASE t = "ProminenceMaritime" -> "prominencemaritime"
    [] t = "COM" -> "com"
    [] OTHER -> t
lower(text) == [i \in 1..Len(text) |-> lower_part(text[i])]

\* a in b for two texts: a occurs in b as a contiguous piece
Contains(a, b) ==
  \E i \in 0..(Len(b) - Len(a)) : SubSeq(b, i + 1, i + Len(a)) = a

\* a routing loop that does not break: the last matching domain wins
RECURSIVE DomainCcLast(_, _, _)
DomainCcLast(vessel_email_lower, routing, i) ==
  IF i > Len(routing) THEN {}
  ELSE LET later == DomainCcLast(vessel_email_lower, routing, i + 1) IN
       IF Contains(lower(routing[i].domain), vessel_email_lower) /\ later = {}
       THEN routing[i].cc
       ELSE later

\* the loop of _get_cc_recipients from entry i on: the cc list of the first
\* domain of email_routing found in the address, [] when there is none
RECURSIVE DomainCc(_, _, _)
DomainCc(vessel_email_lower, routing, i) ==
  IF i > Len(routing) THEN {}
  ELSE IF Contains(lower(routing[i].domain), vessel_email_lower)
       THEN routing[i].cc
       ELSE DomainCc(vessel_email_lower, routing, i + 1)

\* _get_cc_recipients: list(set(cc_list + internal_recipients)), a list
\* without duplicates whose order is not defined, kept as a set
get_cc_recipients(vessel_email) ==
  DomainCc(lower(vessel_email), email_routing, 1) \cup internal_recipients

route_notifications(df) ==
  LET vessels == SortedSeq({ df[i].vessel_id : i \in 1..Len(df) })
      rows(v) == SelectSeq(df, LAMBDA r : r.vessel_id = v)
  IN  [j \in 1..Len(vessels) |->
         [recipients |-> <<rows(vessels[j])[1].vsl_email>>,
          cc_recipients |-> get_cc_recipients(rows(vessels[j])[1].vsl_email),
          data |-> rows(vessels[j])]]

\* main.initialize_components: the EmailSender refuses to send in a dry run
\* without a redirect address
EmailSenderDryRun == config.dry_run /\ config.dry_run_email = NoAddress

\* EmailSender.send: how the call ends
EmailSenderSend(recipients, cc_recipients) ==
  IF EmailSenderDryRun THEN "RuntimeError"
  ELSE IF recipients = <<>> THEN "ValueError"
  ELSE "smtp"

\* _send_notifications: the addressees of a job, replaced in a dry run with
\* a redirect address
Redirected == config.dry_run /\ config.dry_run_email # NoAddress
JobRecipients(job) == IF Redirected THEN <<config.dry_run_email>> ELSE job.recipients
\* a redirection that replaces the addressees and keeps the CC list
JobCcKeepsOriginal(job) == job.cc_recipients
JobCc(job) == IF Redirected THEN {} ELSE job.cc_recipients

\* main.initialize_components: the tracker is built when the process starts
Start ==
  /\ pc = "down"
  /\ Load
  /\ UNCHANGED <<runVars, filterVars>>

\* run, steps 1-5: fetch and filter_data give df_filtered; the dedup filter
\* and the routing follow unless a step returns False
RunStart ==
  /\ pc = "idle"
  /\ run_time' = now
  /\ \E df \in Batches :
       IF df = <<>>
       THEN \* nothing fetched, or nothing left after filter_data
            /\ run_result' = "false"
            /\ UNCHANGED <<pc, call, pre_events, read_events, batch, unsent, jobs, jobIdx>>
       ELSE /\ batch' = df
            /\ unsent' = FilterUnsent(df, KeyFunc)
            /\ pre_events' = sent_events
            /\ call' = CallOf("filter", FALSE, FALSE, now, {})
            /\ read_events' = NoRead
            /\ IF unsent' = <<>>
               THEN \* all records have been sent previously
                    /\ run_result' = "false"
                    /\ UNCHANGED <<pc, jobs, jobIdx>>
               ELSE /\ run_result' = "running"
                    /\ jobs' = route_notifications(unsent')
                    /\ jobIdx' = 1
                    /\ pc' = "sending"
  /\ sent_keys' = {}
  /\ any_sent' = FALSE
  /\ outcomes' = <<>>
  /\ last_email' = NoEmail
  /\ UNCHANGED <<now, cfgVars, schedVars, otherVars, fileVars, caller, sent_events, marked, lastDispatch, done_batch, failed_keys>>

\* a run without its handler: the exception of a step leaves run
RunRaisesPropagates ==
  /\ pc = "idle"
  /\ run_time' = now
  /\ run_result' = "raised"
  /\ UNCHANGED <<now, cfgVars, schedVars, otherVars, fileVars, pc, caller, sent_events, call, pre_events, marked,
                 read_events, filterVars, jobs, jobIdx, sent_keys, any_sent, outcomes,
                 lastDispatch, done_batch, last_email, failed_keys>>

\* run: fetch_data, validate_required_columns, filter_data or
\* route_notifications raises; the handler of run returns False
RunRaises ==
  /\ pc = "idle"
  /\ run_time' = now
  /\ run_result' = "false"
  /\ UNCHANGED <<now, cfgVars, schedVars, otherVars, fileVars, pc, caller, sent_events, call, pre_events, marked,
                 read_events, filterVars, jobs, jobIdx, sent_keys, any_sent, outcomes,
                 lastDispatch, done_batch, last_email, failed_keys>>

\* a completed send whose keys are not collected
SendJobOkCollectsNone ==
  /\ pc = "sending"
  /\ jobIdx <= Len(jobs)
  /\ config.enable_email_alerts =>
       EmailSenderSend(JobRecipients(jobs[jobIdx]), JobCc(jobs[jobIdx])) = "smtp"
  /\ last_email' = IF config.enable_email_alerts
                   THEN [to |-> JobRecipients(jobs[jobIdx]), cc |-> JobCc(jobs[jobIdx])]
                   ELSE last_email
  /\ any_sent' = TRUE
  /\ jobIdx' = jobIdx + 1
  /\ outcomes' = Append(outcomes, IF config.enable_email_alerts THEN "sent" ELSE "prepared")
  /\ UNCHANGED <<lastDispatch, now, cfgVars, schedVars, otherVars, fileVars, pc, caller, sent_events, call, pre_events, marked,
                 read_events, filterVars, run_time, run_result, jobs, done_batch, failed_keys, sent_keys>>

\* _send_notifications, one turn of the loop that completes: the content is
\* formatted, the email is sent when emails are enabled, the keys of the
\* job's rows are collected
SendJobOk ==
  /\ pc = "sending"
  /\ jobIdx <= Len(jobs)
  /\ config.enable_email_alerts =>
       EmailSenderSend(JobRecipients(jobs[jobIdx]), JobCc(jobs[jobIdx])) = "smtp"
  /\ last_email' = IF config.enable_email_alerts
                   THEN [to |-> JobRecipients(jobs[jobIdx]), cc |-> JobCc(jobs[jobIdx])]
                   ELSE last_email
  /\ sent_keys' = sent_keys \cup JobKeys(jobs[jobIdx])
  /\ any_sent' = TRUE
  /\ jobIdx' = jobIdx + 1
  /\ outcomes' = Append(outcomes, IF config.enable_email_alerts THEN "sent" ELSE "prepared")
  /\ UNCHANGED <<lastDispatch, now, cfgVars, schedVars, otherVars, fileVars, pc, caller, sent_events, call, pre_events, marked,
                 read_events, filterVars, run_time, run_result, jobs, done_batch, failed_keys>>

\* a loop that collects the keys of a job before its send has completed
SendJobRaiseCollects ==
  /\ pc = "sending"
  /\ jobIdx <= Len(jobs)
  /\ jobIdx' = jobIdx + 1
  /\ outcomes' = Append(outcomes, "raised")
  /\ sent_keys' = sent_keys \cup JobKeys(jobs[jobIdx])
  /\ UNCHANGED <<now, cfgVars, schedVars, otherVars, fileVars, pc, caller, sent_events, call, pre_events, marked,
                 read_events, filterVars, run_time, run_result, jobs, any_sent,
                 lastDispatch, done_batch, last_email, failed_keys>>

\* a loop that ends at the first job that raises
SendJobRaiseBreaks ==
  /\ pc = "sending"
  /\ jobIdx <= Len(jobs)
  /\ jobIdx' = Len(jobs) + 1
  /\ outcomes' = Append(outcomes, "raised")
  /\ UNCHANGED <<now, cfgVars, schedVars, otherVars, fileVars, pc, caller, sent_events, call, pre_events, marked,
                 read_events, filterVars, run_time, run_result, jobs, sent_keys, any_sent,
                 lastDispatch, done_batch, last_email, failed_keys>>

\* _send_notifications, one turn of the loop in which a formatter or
\* email_sender.send raises: logged, the loop continues
SendJobRaise ==
  /\ pc = "sending"
  /\ jobIdx <= Len(jobs)
  /\ jobIdx' = jobIdx + 1
  /\ outcomes' = Append(outcomes, "raised")
  /\ UNCHANGED <<now, cfgVars, schedVars, otherVars, fileVars, pc, caller, sent_events, call, pre_events, marked,
                 read_events, filterVars, run_time, run_result, jobs, sent_keys, any_sent,
                 lastDispatch, done_batch, last_email, failed_keys>>

\* a commit that is left out in every dry run
CommitSentSkipsInDryRun ==
  /\ pc = "sending"
  /\ jobIdx > Len(jobs)
  /\ IF sent_keys # {} /\ config.enable_email_alerts /\ ~config.dry_run
     THEN /\ MarkAsSent(sent_keys, run_time)
          /\ UNCHANGED <<runVars, filterVars>>
     ELSE /\ EndRun(any_sent)
          /\ pc' = "idle"
          /\ batch' = <<>>
          /\ unsent' = <<>>
          /\ UNCHANGED <<now, cfgVars, schedVars, otherVars, fileVars, caller, sent_events, call, pre_events,
                         marked, read_events, done_batch>>

\* _send_notifications after the loop: commit the collected keys, or return
CommitSent ==
  /\ pc = "sending"
  /\ jobIdx > Len(jobs)
  /\ IF sent_keys # {} /\ config.enable_email_alerts
     THEN /\ MarkAsSent(sent_keys, run_time)
          /\ UNCHANGED <<runVars, filterVars>>
     ELSE /\ EndRun(any_sent)
          /\ pc' = "idle"
          /\ batch' = <<>>
          /\ unsent' = <<>>
          /\ UNCHANGED <<now, cfgVars, schedVars, otherVars, fileVars, caller, sent_events, call, pre_events,
                         marked, read_events, done_batch>>

Init ==
  /\ InitCommon
  /\ failed_keys = NotRecorded
  /\ config \in {NormalConfig, RedirectConfig, BlockedConfig, UnguardedConfig}
  /\ email_routing = DefaultRouting
  /\ internal_recipients = DefaultInternal
  /\ SchedulerOff

Next ==
  \/ Start
  \/ RunStart
  \/ RunRaises
  \/ SendJobOk
  \/ SendJobRaise
  \/ CommitSent
  \/ SaveMkstemp
  \/ SaveDump
  \/ SaveMove
  \/ SaveFail
  \/ Tick
  \/ Crash

Spec == Init /\ [][Next]_vars

\* the same process, started on a new tracking file, with the history of
\* its failed jobs kept
RetryInit ==
  /\ InitCommon
  /\ failed_keys = NoneFailed
  /\ file = MissingFile
  /\ config \in {NormalConfig, RedirectConfig, BlockedConfig, UnguardedConfig}
  /\ email_routing = DefaultRouting
  /\ internal_recipients = DefaultInternal
  /\ SchedulerOff

RetrySpec == RetryInit /\ [][Next]_vars

\* ------------------------------------------------------ AlertScheduler

\* everything outside the scheduler: the runners are opaque callables to it
appVars == <<now, cfgVars, otherVars, fileVars, pc, caller, sent_events, call, pre_events, marked,
             read_events, runVars, filterVars>>

\* the callables that can be registered
Runners == {"alert_a", "alert_b"}

\* the recovery wait of run_continuous (300 seconds), in ticks
RecoveryTicks == 1

SInit ==
  /\ now = 0
  /\ reminder_frequency_days = None
  /\ config = NormalConfig
  /\ email_routing = DefaultRouting
  /\ internal_recipients = DefaultInternal
  /\ file = MissingFile
  /\ tmp = MissingFile
  /\ pc = "down"
  /\ caller = "load"
  /\ sent_events = EmptyLedger
  /\ call = NoCall
  /\ pre_events = EmptyLedger
  /\ marked = [k \in Keys |-> NoTime]
  /\ read_events = NoRead
  /\ batch = <<>>
  /\ unsent = <<>>
  /\ run_time = 0
  /\ run_result = "none"
  /\ jobs = <<>>
  /\ jobIdx = 0
  /\ sent_keys = {}
  /\ any_sent = FALSE
  /\ outcomes = <<>>
  /\ lastDispatch = [k \in Keys |-> NoTime]
  /\ done_batch = <<>>
  /\ last_email = NoEmail
  /\ failed_keys = NotRecorded
  /\ row_keys = <<>>
  /\ writers = [p \in Writers |-> WriterDown]
  \* AlertScheduler.__init__
  /\ alerts = <<>>
  /\ mode = "none"
  /\ shutdown_event = FALSE
  /\ spc = "created"
  /\ idx = 0
  /\ invoked = <<>>
  /\ cycles = 0
  /\ slept = 0
  /\ exit_at = "none"

\* register_alert: append to _alerts
RegisterAlert ==
  /\ spc = "created"
  /\ Len(alerts) < MaxAlerts
  /\ \E alert_runner \in Runners : alerts' = Append(alerts, alert_runner)
  /\ UNCHANGED <<appVars, mode, shutdown_event, spc, idx, invoked, cycles, slept, exit_at>>

\* _signal_handler: SIGTERM or SIGINT arrives, at any point of the program
SignalHandler ==
  /\ spc \notin {"off", "returned", "stopped"}
  /\ shutdown_event' = TRUE
  /\ UNCHANGED <<appVars, alerts, mode, spc, idx, invoked, cycles, slept, exit_at>>

\* _run_all_alerts is entered: return at once when nothing is registered,
\* else start the loop
EnterCycle ==
  /\ spc' = IF alerts = <<>> THEN "cycle_done" ELSE "for_test"
  /\ idx' = 1
  /\ invoked' = <<>>
  /\ cycles' = IF cycles < MaxCycles THEN cycles + 1 ELSE cycles

\* run_once is called
RunOnce ==
  /\ spc = "created"
  /\ mode' = "once"
  /\ EnterCycle
  /\ UNCHANGED <<appVars, alerts, shutdown_event, slept, exit_at>>

\* run_continuous is called
RunContinuous ==
  /\ spc = "created"
  /\ mode' = "continuous"
  /\ spc' = "while_test"
  /\ UNCHANGED <<appVars, alerts, shutdown_event, idx, invoked, cycles, slept, exit_at>>

\* run_continuous: while not self.shutdown_event.is_set()
WhileTest ==
  /\ spc = "while_test"
  /\ IF shutdown_event
     THEN /\ spc' = "stopped"
          /\ exit_at' = "while"
          /\ UNCHANGED <<idx, invoked, cycles>>
     ELSE /\ EnterCycle
          /\ UNCHANGED exit_at
  /\ UNCHANGED <<appVars, alerts, mode, shutdown_event, slept>>

\* a loop that starts the runners without looking at the flag
ForTestIgnoresShutdown ==
  /\ spc = "for_test"
  /\ spc' = IF idx > Len(alerts) THEN "cycle_done" ELSE "calling"
  /\ UNCHANGED <<appVars, alerts, mode, shutdown_event, idx, invoked, cycles, slept, exit_at>>

\* _run_all_alerts: the loop takes the next runner, and breaks when the
\* flag is set
ForTest ==
  /\ spc = "for_test"
  /\ spc' = IF idx > Len(alerts) THEN "cycle_done"
            ELSE IF shutdown_event THEN "cycle_done"
            ELSE "calling"
  /\ UNCHANGED <<appVars, alerts, mode, shutdown_event, idx, invoked, cycles, slept, exit_at>>

\* a loop that walks _alerts from its end
CallRunnerReversed ==
  /\ spc = "calling"
  /\ spc' = "in_runner"
  /\ invoked' = Append(invoked, [runner |-> alerts[Len(alerts) + 1 - idx], outcome |-> "running",
                                 requested |-> shutdown_event])
  /\ UNCHANGED <<appVars, alerts, mode, shutdown_event, idx, cycles, slept, exit_at>>

\* _run_all_alerts: the progress line is logged and alert_runner() is called
CallRunner ==
  /\ spc = "calling"
  /\ spc' = "in_runner"
  /\ invoked' = Append(invoked, [runner |-> alerts[idx], outcome |-> "running",
                                 requested |-> shutdown_event])
  /\ UNCHANGED <<appVars, alerts, mode, shutdown_event, idx, cycles, slept, exit_at>>

\* the runner in flight returns
RunnerReturns ==
  /\ spc = "in_runner"
  /\ invoked' = [invoked EXCEPT ![Len(invoked)].outcome = "returned"]
  /\ idx' = idx + 1
  /\ spc' = "for_test"
  /\ UNCHANGED <<appVars, alerts, mode, shutdown_event, cycles, slept, exit_at>>

\* a loop without the handler around alert_runner(): the exception leaves
\* _run_all_alerts
RunnerRaisesPropagates ==
  /\ spc = "in_runner"
  /\ invoked' = [invoked EXCEPT ![Len(invoked)].outcome = "raised"]
  /\ IF mode = "once"
     THEN spc' = "returned" /\ exit_at' = "raised"
     ELSE spc' = "recovery" /\ UNCHANGED exit_at
  /\ UNCHANGED <<appVars, alerts, mode, shutdown_event, idx, cycles, slept>>

\* the runner in flight raises an Exception: logged, the loop continues
RunnerRaises ==
  /\ spc = "in_runner"
  /\ invoked' = [invoked EXCEPT ![Len(invoked)].outcome = "raised"]
  /\ idx' = idx + 1
  /\ spc' = "for_test"
  /\ UNCHANGED <<appVars, alerts, mode, shutdown_event, cycles, slept, exit_at>>

\* a run_continuous that goes on to the wait without looking at the flag
CycleDoneIgnoresShutdown ==
  /\ spc = "cycle_done"
  /\ IF mode = "once"
     THEN spc' = "returned" /\ exit_at' = "run_once"
     ELSE spc' = "next_run" /\ UNCHANGED exit_at
  /\ UNCHANGED <<appVars, alerts, mode, shutdown_event, idx, invoked, cycles, slept>>

\* _run_all_alerts has returned: run_once returns; run_continuous looks at
\* the flag and breaks, or goes on to compute the next run time
CycleDone ==
  /\ spc = "cycle_done"
  /\ IF mode = "once"
     THEN spc' = "returned" /\ exit_at' = "run_once"
     ELSE IF shutdown_event
     THEN spc' = "stopped" /\ exit_at' = "after_cycle"
     ELSE spc' = "next_run" /\ UNCHANGED exit_at
  /\ UNCHANGED <<appVars, alerts, mode, shutdown_event, idx, invoked, cycles, slept>>

\* run_continuous: the next run time is computed and logged, the wait begins
StartSleep ==
  /\ spc = "next_run"
  /\ spc' = "sleeping"
  /\ slept' = 0
  /\ UNCHANGED <<appVars, alerts, mode, shutdown_event, idx, invoked, cycles, exit_at>>

\* run_continuous: a statement of the loop body raises an Exception
LoopBodyRaises ==
  /\ spc = "next_run"
  /\ spc' = "recovery"
  /\ UNCHANGED <<appVars, alerts, mode, shutdown_event, idx, invoked, cycles, slept, exit_at>>

\* a handler that retries at once
RecoveryTestNoWait ==
  /\ spc = "recovery"
  /\ spc' = "while_test"
  /\ UNCHANGED <<appVars, alerts, mode, shutdown_event, idx, invoked, cycles, slept, exit_at>>

\* run_continuous, except Exception: wait before retrying unless the flag is set
RecoveryTest ==
  /\ spc = "recovery"
  /\ IF shutdown_event
     THEN spc' = "while_test" /\ UNCHANGED slept
     ELSE spc' = "recovery_wait" /\ slept' = 0
  /\ UNCHANGED <<appVars, alerts, mode, shutdown_event, idx, invoked, cycles, exit_at>>

WaitPcs == {"sleeping", "recovery_wait"}
WaitLimit == IF spc = "sleeping" THEN SleepTicks ELSE RecoveryTicks

\* a wait that goes on while the flag is set (time.sleep)
WaitElapseUninterruptible ==
  /\ spc \in WaitPcs
  /\ slept < WaitLimit
  /\ slept' = slept + 1
  /\ UNCHANGED <<appVars, alerts, mode, shutdown_event, spc, idx, invoked, cycles, exit_at>>

\* shutdown_event.wait(timeout): time passes while the flag is not set
WaitElapse ==
  /\ spc \in WaitPcs
  /\ ~shutdown_event
  /\ slept < WaitLimit
  /\ slept' = slept + 1
  /\ UNCHANGED <<appVars, alerts, mode, shutdown_event, spc, idx, invoked, cycles, exit_at>>

\* shutdown_event.wait(timeout) returns False: the timeout has elapsed
WaitTimeout ==
  /\ spc \in WaitPcs
  /\ ~shutdown_event
  /\ slept = WaitLimit
  /\ spc' = "while_test"
  /\ slept' = 0
  /\ UNCHANGED <<appVars, alerts, mode, shutdown_event, idx, invoked, cycles, exit_at>>

\* a wait that takes the flag for a wake-up call: it clears the flag and
\* goes on with the next cycle
WaitSetClears ==
  /\ spc \in WaitPcs
  /\ shutdown_event
  /\ shutdown_event' = FALSE
  /\ spc' = "while_test"
  /\ UNCHANGED <<appVars, alerts, mode, idx, invoked, cycles, slept, exit_at>>

\* shutdown_event.wait(timeout) returns True: the flag is set; break
WaitSet ==
  /\ spc \in WaitPcs
  /\ shutdown_event
  /\ spc' = "stopped"
  /\ exit_at' = spc
  /\ UNCHANGED <<appVars, alerts, mode, shutdown_event, idx, invoked, cycles, slept>>

\* the steps the scheduler takes by itself
SchedulerStep ==
  \/ WhileTest
  \/ ForTest
  \/ CallRunner
  \/ RunnerReturns
  \/ RunnerRaises
  \/ CycleDone
  \/ StartSleep
  \/ LoopBodyRaises
  \/ RecoveryTest
  \/ WaitElapse
  \/ WaitTimeout
  \/ WaitSet

SNext ==
  \/ RegisterAlert
  \/ SignalHandler
  \/ RunOnce
  \/ RunContinuous
  \/ WhileTest
  \/ ForTest
  \/ CallRunner
  \/ RunnerReturns
  \/ RunnerRaises
  \/ CycleDone
  \/ StartSleep
  \/ LoopBodyRaises
  \/ RecoveryTest
  \/ WaitElapse
  \/ WaitTimeout
  \/ WaitSet

SchedulerSpec == SInit /\ [][SNext]_vars

\* the scheduler keeps running and the runner in flight terminates
SchedulerLiveSpec == SInit /\ [][SNext]_vars /\ WF_vars(SchedulerStep)

\* ------------------------------------------------------ routing

\* routing tables and internal lists a deployment or a test may configure
RoutingDomains ==
  { <<"prominencemaritime", "com">>, <<"ProminenceMaritime", "COM">>,
    <<"seatraders", "com">>, <<"vsl", "prominencemaritime", "com">> }
CcLists == { {}, {OpsEmail}, {TechEmail, InternalEmail} }
RoutingEntries == [domain : RoutingDomains, cc : CcLists]
RoutingTables ==
  { t \in UNION { [1..n -> RoutingEntries] : n \in 0..MaxRoutes } :
      \A i, j \in 1..Len(t) : i # j => t[i].domain # t[j].domain }
InternalLists == { {}, {InternalEmail}, {InternalEmail, OpsEmail} }

RInit ==
  /\ InitCommon
  /\ failed_keys = NotRecorded
  /\ file = MissingFile
  /\ reminder_frequency_days = None
  /\ config = NormalConfig
  /\ email_routing \in RoutingTables
  /\ internal_recipients \in InternalLists
  /\ SchedulerOff

\* route_notifications is called with a frame of records
Route ==
  /\ \E df \in Batches :
       /\ df # <<>>
       /\ batch' = df
       /\ jobs' = route_notifications(df)
  /\ UNCHANGED <<now, cfgVars, schedVars, otherVars, fileVars, pc, caller, sent_events, call, pre_events,
                 marked, read_events, unsent, run_time, run_result, jobIdx, sent_keys,
                 any_sent, outcomes, lastDispatch, done_batch, last_email, failed_keys>>

RNext == Route

RoutingSpec == RInit /\ [][RNext]_vars

\* ------------------------------------------------------ two processes

\* the loop of mark_as_sent on a ledger: the timestamp under every key
WithMarked(events, event_keys, timestamp) ==
  [k \in DOMAIN events \cup event_keys |->
     IF k \in event_keys THEN isoformat(timestamp) ELSE events[k]]

WInit ==
  /\ InitCommon
  /\ failed_keys = NotRecorded
  /\ file \in {MissingFile, JsonDump(SomeKey :> isoformat(0), 0)}
  /\ reminder_frequency_days = None
  /\ config = NormalConfig
  /\ email_routing = DefaultRouting
  /\ internal_recipients = DefaultInternal
  /\ SchedulerOff

WriterUnchanged ==
  UNCHANGED <<now, cfgVars, schedVars, row_keys, pc, caller, sent_events, call, pre_events,
              marked, read_events, filterVars, runVars>>

\* a process starts: its EventTracker loads the file (no window: nothing is
\* evicted and nothing is written)
WriterStart ==
  /\ \E p \in Writers :
       /\ writers[p].pc \in {"down", "idle"}
       /\ writers' = [writers EXCEPT ![p] =
                        [pc |-> "idle",
                         sent_events |-> IF file.kind = "json" THEN LoadedData(file, now)
                                         ELSE EmptyLedger,
                         tmp |-> MissingFile, keys |-> {}, returned |-> {}]]
  /\ UNCHANGED fileVars
  /\ WriterUnchanged

\* mark_as_sent of a process, up to its call of _save
WriterMark ==
  /\ \E p \in Writers, event_keys \in (SUBSET Keys) \ {{}} :
       /\ writers[p].pc = "idle"
       /\ writers' = [writers EXCEPT ![p].sent_events = WithMarked(@, event_keys, now),
                                     ![p].keys = event_keys,
                                     ![p].pc = "save_mkstemp"]
  /\ UNCHANGED fileVars
  /\ WriterUnchanged

\* a save that opens the target for writing
WriterOpensTarget ==
  /\ \E p \in Writers :
       /\ writers[p].pc = "save_mkstemp"
       /\ writers' = [writers EXCEPT ![p].pc = "save_dump"]
  /\ file' = CorruptFile
  /\ UNCHANGED tmp
  /\ WriterUnchanged

\* _save, step 1: mkstemp gives the process a temporary file of its own
WriterMkstemp ==
  /\ \E p \in Writers :
       /\ writers[p].pc = "save_mkstemp"
       /\ writers' = [writers EXCEPT ![p].tmp = CorruptFile, ![p].pc = "save_dump"]
  /\ UNCHANGED fileVars
  /\ WriterUnchanged

\* _save, step 2: the whole ledger of the process goes into its temporary file
WriterDump ==
  /\ \E p \in Writers :
       /\ writers[p].pc = "save_dump"
       /\ writers' = [writers EXCEPT ![p].tmp = JsonDump(writers[p].sent_events, now),
                                     ![p].pc = "save_move"]
  /\ UNCHANGED fileVars
  /\ WriterUnchanged

\* _save, step 3: the temporary file is renamed over the target, and
\* mark_as_sent returns
WriterMove ==
  /\ \E p \in Writers :
       /\ writers[p].pc = "save_move"
       /\ file' = writers[p].tmp
       /\ writers' = [writers EXCEPT ![p].tmp = MissingFile,
                                     ![p].pc = "idle",
                                     ![p].returned = @ \cup writers[p].keys]
  /\ UNCHANGED tmp
  /\ WriterUnchanged

\* _save of a process fails: its temporary file is unlinked, mark_as_sent raises
WriterSaveFail ==
  /\ \E p \in Writers :
       /\ writers[p].pc \in SavePcs
       /\ writers' = [writers EXCEPT ![p].tmp = MissingFile, ![p].pc = "idle"]
  /\ UNCHANGED fileVars
  /\ WriterUnchanged

WNext ==
  \/ WriterStart
  \/ WriterMark
  \/ WriterMkstemp
  \/ WriterDump
  \/ WriterMove
  \/ WriterSaveFail

WritersSpec == WInit /\ [][WNext]_vars

\* ------------------------------------------------------ tracking keys

\* rows of the passage plan query and of the vessel documents query: the
\* identifying columns, and columns that are displayed or that change
PlanRows ==
  [vessel_id : {101, 102}, vsl_email : {SerifosEmail}, event_type_id : {37, 18},
   event_id : {201, 203}, status : {"for-review", "approved"}]
DocumentRows ==
  [vessel_id : {101, 102}, vsl_email : {SerifosEmail}, document_id : {301, 302},
   document_name : {"Class Certificate", "Safety Certificate"}]

KeyFrames ==
  UNION { [1..n -> PlanRows] \cup [1..n -> DocumentRows] : n \in 1..MaxRows }

IsDocument(row) == "document_id" \in DOMAIN row

\* the two rows are the same logical event
SameEvent(r1, r2) ==
  /\ IsDocument(r1) = IsDocument(r2)
  /\ r1.vessel_id = r2.vessel_id
  /\ IF IsDocument(r1)
     THEN r1.document_id = r2.document_id
     ELSE r1.event_type_id = r2.event_type_id /\ r1.event_id = r2.event_id

\* key_func=self.get_tracking_key of the alert that fetched the row
AlertKey(row) ==
  IF IsDocument(row) THEN VesselDocuments_get_tracking_key(row) ELSE get_tracking_key(row)

KInit ==
  /\ InitCommon
  /\ failed_keys = NotRecorded
  /\ file = MissingFile
  /\ reminder_frequency_days = None
  /\ config = NormalConfig
  /\ email_routing = DefaultRouting
  /\ internal_recipients = DefaultInternal
  /\ SchedulerOff

\* fetch_data of the first run returns a frame
FetchData ==
  /\ batch = <<>>
  /\ \E df \in KeyFrames : batch' = df
  /\ row_keys' = <<>>
  /\ UNCHANGED <<now, cfgVars, schedVars, writers, fileVars, pc, caller, sent_events, call,
                 pre_events, marked, read_events, unsent, runVars>>

\* fetch_data of a later run returns the same events, their other columns
\* as they are by then
FetchDataAgain ==
  /\ batch # <<>>
  /\ \E df \in KeyFrames :
       /\ Len(df) = Len(batch)
       /\ \A i \in 1..Len(df) : SameEvent(df[i], batch[i])
       /\ batch' = df
  /\ UNCHANGED <<now, cfgVars, schedVars, otherVars, fileVars, pc, caller, sent_events, call,
                 pre_events, marked, read_events, unsent, runVars>>

\* tracking_keys = df.apply(key_func, axis=1)
ApplyKeyFunc ==
  /\ batch # <<>>
  /\ row_keys' = [i \in 1..Len(batch) |-> AlertKey(batch[i])]
  /\ UNCHANGED <<now, cfgVars, schedVars, writers, fileVars, pc, caller, sent_events, call,
                 pre_events, marked, read_events, filterVars, runVars>>

KNext ==
  \/ FetchData
  \/ FetchDataAgain
  \/ ApplyKeyFunc
  \/ Tick

KeySpec == KInit /\ [][KNext]_vars

\* ------------------------------------------------------------ properties

window == reminder_frequency_days

\* the step sends an email that carries key k
Dispatches(k) ==
  /\ pc = "sending"
  /\ jobIdx <= Len(jobs)
  /\ outcomes' = Append(outcomes, "sent")
  /\ k \in JobKeys(jobs[jobIdx])

\* C1 (as claimed): whatever cycles, restarts, send failures and ledger
\* write failures occur, an email carries a key only if no earlier email
\* carried it, or the last one that did is at least the reminder window old.
C1_AtMostOncePerWindow ==
  [][ \A k \in Keys :
        Dispatches(k) =>
          \/ lastDispatch[k] = NoTime
          \/ (window # None /\ now - lastDispatch[k] >= window)
    ]_vars

\* C2: the ledger is untouched while the jobs of a run are being sent, and
\* when the run calls mark_as_sent every job has been processed, the keys
\* passed are keys of jobs whose send completed, and no key of a job that
\* raised is passed or is in the ledger.
C2_MarkOnlyCompletedJobs ==
  /\ (pc = "sending" => sent_events = pre_events)
  /\ (run_result = "running" /\ call.op = "mark_saving") =>
       /\ jobIdx > Len(jobs)
       /\ Len(outcomes) = Len(jobs)
       /\ call.keys \subseteq
            UNION { JobKeys(jobs[i]) : i \in { j \in 1..Len(jobs) : outcomes[j] = "sent" } }
       /\ \A i \in 1..Len(jobs) :
            outcomes[i] = "raised" =>
              \A k \in JobKeys(jobs[i]) : k \notin call.keys /\ ~is_sent(k)

C2_Witness ==
  /\ run_result = "running"
  /\ call.op = "mark_saving"
  /\ \E i \in 1..Len(jobs) : outcomes[i] = "raised"
  /\ \E i \in 1..Len(jobs) : outcomes[i] = "sent"

\* C3: once a run has sent every job of a batch and its mark_as_sent has
\* returned, a run of the same tracker over the same batch sends nothing:
\* it returns False before any job is created.
C3_NoResendOfDoneBatch ==
  (done_batch # <<>> /\ batch = done_batch) =>
    /\ pc = "idle"
    /\ run_result = "false"
    /\ unsent = <<>>
    /\ jobs = <<>>
    /\ outcomes = <<>>

C3_Witness ==
  /\ done_batch # <<>>
  /\ batch = done_batch
  /\ call.op = "filter"

\* C4: right after filter_unsent_events(B, f) the result holds exactly the
\* records of B whose key is not in the ledger, in their order in B; it is
\* empty when B is empty; the ledger is as it was before the call.
C4_FilterReturnsUnsentInOrder ==
  call.op = "filter" =>
    /\ unsent = SelectSeq(batch, LAMBDA r : ~is_sent(get_tracking_key(r)))
    /\ (batch = <<>> => unsent = <<>>)
    /\ sent_events = pre_events

C4_Witness ==
  /\ call.op = "filter"
  /\ Len(batch) = 2
  /\ Len(unsent) = 1
  /\ unsent[1] = batch[2]

\* C5 (as claimed): a key whose mark_as_sent returned at t is reported by
\* is_sent in every later state in which a tracker exists, as long as
\* now - t < W (always when W is None).
C5_MarkedStaysSent ==
  \A k \in Keys :
    ( /\ pc # "down"
      /\ marked[k] # NoTime
      /\ (window = None \/ now - marked[k] < window) )
    => is_sent(k)

\* C6 (as claimed): with a reminder window W, a key marked at t is no longer
\* reported as sent at any time now with now - t >= W.
C6_ExpiredNotReported ==
  \A k \in Keys :
    ( /\ pc # "down"
      /\ window # None
      /\ marked[k] # NoTime
      /\ is_sent(k)
      /\ sent_events[k] = isoformat(marked[k]) )
    => now - marked[k] < window

\* C7: the content under the target name changes only by the rename that
\* ends a save, and then to the complete dump of the ledger; a save that
\* fails or a process that dies during a save leaves the file as it was.
C7_AtomicReplace ==
  [][ /\ (file' # file =>
            /\ pc = "save_move"
            /\ file' = JsonDump(sent_events, now))
      /\ ((pc \in SavePcs /\ (pc' = "down" \/ call'.writeFailed)) => file' = file)
    ]_vars

C7_Witness ==
  /\ pc = "down"
  /\ call.op = "killed_in_save"
  /\ tmp.kind = "corrupt"
  /\ file.kind = "json"
  /\ DOMAIN file.sent_events # {}

\* the entries of ledger L that are not expired at time t
NonExpired(L, t) ==
  IF window = None THEN L
  ELSE LET live == { k \in DOMAIN L : Parses(L[k]) /\ ~(fromisoformat(L[k]) < t - window) }
       IN  [k \in live |-> L[k]]

\* C8 (as claimed): every load of a persisted ledger L yields the
\* non-expired entries of L, keys and timestamps.
C8_ReloadKeepsNonExpired ==
  (call.op = "load" /\ ~call.raised /\ read_events.kind = "json")
    => sent_events = NonExpired(read_events.data, call.at)

\* C9: when mark_as_sent(keys, at) has returned, every key of keys maps to
\* at, every other entry is as before the call, and the file's sent_events
\* mapping equals the ledger in memory.
C9_MarkWritesAndPersists ==
  (call.op = "mark" /\ ~call.raised) =>
    /\ \A k \in call.keys :
         /\ is_sent(k)
         /\ Parses(sent_events[k])
         /\ fromisoformat(sent_events[k]) = call.at
    /\ \A k \in Keys \ call.keys :
         /\ is_sent(k) <=> k \in DOMAIN pre_events
         /\ is_sent(k) => sent_events[k] = pre_events[k]
    /\ file.kind = "json"
    /\ file.sent_events = sent_events

C9_Witness ==
  /\ call.op = "mark"
  /\ ~call.raised
  /\ \E k \in call.keys : k \in DOMAIN pre_events /\ pre_events[k] # sent_events[k]
  /\ \E k \in Keys \ call.keys : k \in DOMAIN pre_events

\* C10 (as claimed): an operation during which the ledger write failed ends
\* by raising.
C10_WriteFailurePropagates ==
  call.writeFailed => call.raised

\* C11: a load of a missing file, or of a file whose content does not parse,
\* does not raise and leaves a tracker whose ledger is empty: is_sent is
\* false for every key.
C11_UnreadableFileLoadsEmpty ==
  (call.op = "load" /\ file.kind # "json") =>
    /\ ~call.raised
    /\ pc = "idle"
    /\ \A k \in Keys : ~is_sent(k)

C11_Witness ==
  /\ call.op = "load"
  /\ file.kind = "corrupt"
  /\ pc = "idle"
  /\ now > 0

\* C12 (as claimed): after a load of a file in the key -> timestamp format, a
\* key is in the ledger exactly if it is in the file and, when a window W is
\* set, its timestamp parses and is not before (time of load) - W; the
\* entries kept carry the file's timestamps.
C12_LoadKeepsExactlyLiveEntries ==
  (call.op = "load" /\ ~call.raised /\ read_events.kind = "json") =>
    \A k \in Keys :
      LET live == /\ k \in DOMAIN read_events.data
                  /\ \/ window = None
                     \/ /\ Parses(read_events.data[k])
                        /\ fromisoformat(read_events.data[k]) >= call.at - window
      IN  /\ is_sent(k) <=> live
          /\ live => sent_events[k] = read_events.data[k]

\* the step is a load (a new EventTracker reads the file)
LoadStep ==
  /\ pc \in {"down", "idle"}
  /\ call'.op \in {"load", "load_saving"}
  /\ read_events'.kind # "none"

\* C13 (as claimed): a load of a file in the legacy list format marks every
\* legacy key as sent with a timestamp not before the load, and the next
\* load of the file reads the key -> timestamp format with the timestamps
\* the first load assigned.
C13_LegacyMigrationPersists ==
  [][ (call.op = "load" /\ read_events.kind = "legacy") =>
        /\ \A k \in DOMAIN read_events.data :
             /\ is_sent(k)
             /\ Parses(sent_events[k])
             /\ fromisoformat(sent_events[k]) >= call.at
        /\ LoadStep =>
             /\ read_events'.kind = "json"
             /\ read_events'.data = read_events.data
    ]_vars

\* the cycle last started is over
CycleOver ==
  /\ cycles > 0
  /\ spc \in {"cycle_done", "next_run", "sleeping", "recovery", "recovery_wait",
              "while_test", "returned", "stopped"}

\* the runners started in the current cycle, in the order they were started
Started == [i \in 1..Len(invoked) |-> invoked[i].runner]

\* C14: an exception of a runner never leaves run_once or run_continuous,
\* and in a cycle in which a runner raised and no shutdown was requested
\* every registered runner, also each one registered after it, has been
\* invoked exactly once when the cycle is over.
C14_RunnerExceptionIsolated ==
  /\ exit_at # "raised"
  /\ (spc = "for_test" => Len(invoked) = idx - 1)
  /\ ( /\ CycleOver
       /\ ~shutdown_event
       /\ \E i \in 1..Len(invoked) : invoked[i].outcome = "raised" )
     => /\ Len(invoked) = Len(alerts)
        /\ \A i \in 1..Len(alerts) :
             /\ invoked[i].runner = alerts[i]
             /\ invoked[i].outcome \in {"returned", "raised"}

C14_Witness ==
  /\ CycleOver
  /\ ~shutdown_event
  /\ Len(invoked) = 2
  /\ invoked[1].outcome = "raised"
  /\ invoked[2].outcome = "returned"

\* C15: the runners are started in registration order, one start for each
\* registration: without a shutdown request the starts of a finished cycle
\* are exactly _alerts; run_once performs one cycle, never waits, and
\* returns.
C15_RegistrationOrderOncePerCycle ==
  /\ Len(invoked) <= Len(alerts)
  /\ \A i \in 1..Len(invoked) : Started[i] = alerts[i]
  /\ (CycleOver /\ ~shutdown_event) => Started = alerts
  /\ mode = "once" =>
       /\ cycles = 1
       /\ slept = 0
       /\ spc \in {"for_test", "calling", "in_runner", "cycle_done", "returned"}
  /\ spc = "returned" =>
       /\ mode = "once"
       /\ exit_at = "run_once"

C15_Witness ==
  /\ spc = "returned"
  /\ ~shutdown_event
  /\ Len(alerts) = 2
  /\ alerts[1] = alerts[2]
  /\ Len(invoked) = 2

\* C16 (as claimed): no runner is started after shutdown has been requested.
C16_NoRunnerStartsAfterRequest ==
  \A i \in 1..Len(invoked) : ~invoked[i].requested

\* C16 (amended): once shutdown has been requested the loop starts no
\* runner it has not already tested the flag for: at most one runner is
\* started after the request, the one whose test had passed, and it is the
\* last of the cycle; the runner in flight runs to completion; the next
\* test of the loop ends the cycle and skips the runners that remain.
C16_AtMostOneStartAfterRequest ==
  [][ /\ \A i \in 1..Len(invoked') : invoked'[i].requested => i = Len(invoked')
      /\ (shutdown_event /\ spc = "for_test") => spc' = "cycle_done"
      /\ (shutdown_event /\ spc = "in_runner") =>
           /\ spc' = "for_test"
           /\ invoked'[Len(invoked')].outcome \in {"returned", "raised"}
      /\ (shutdown_event /\ Len(invoked') > Len(invoked)) => spc = "calling"
    ]_vars

C16_Witness ==
  /\ spc = "cycle_done"
  /\ shutdown_event
  /\ Len(alerts) = 2
  /\ Len(invoked) = 1
  /\ invoked[1].requested
  /\ invoked[1].outcome = "returned"

\* C17: when the flag is set during the sleep between two cycles, the wait
\* does not go on: the only step is the return of the wait, which ends
\* run_continuous without another cycle, and that step is taken.
C17_SleepEndsAtRequest ==
  /\ [][ (spc = "sleeping" /\ shutdown_event) =>
           /\ spc' = "stopped"
           /\ slept' = slept
           /\ cycles' = cycles
           /\ invoked' = invoked
       ]_vars
  /\ ((spc = "sleeping" /\ shutdown_event) ~> (spc = "stopped" /\ exit_at = "sleeping"))

C17_Witness ==
  /\ spc = "stopped"
  /\ exit_at = "sleeping"
  /\ slept < SleepTicks
  /\ cycles = 1

\* C18: the flag, once set, stays set; run_continuous returns after the
\* flag is set (the runner in flight terminating) and stays returned; it
\* returns for no other reason, and while the flag is not set it comes back
\* to the head of its loop again and again.
C18_StopsAfterRequestOnly ==
  /\ [][ /\ shutdown_event => shutdown_event'
         /\ spc = "stopped" => spc' = "stopped"
       ]_vars
  /\ ((mode = "continuous" /\ shutdown_event) ~> spc = "stopped")
  /\ [](spc = "stopped" => (shutdown_event /\ mode = "continuous"))
  /\ [](mode = "continuous" => <>(shutdown_event \/ spc = "while_test"))

C18_Witness ==
  /\ spc = "stopped"
  /\ shutdown_event
  /\ cycles = MaxCycles
  /\ exit_at = "after_cycle"

\* the addresses of a message: To and Cc
Addressees(email) == { email.to[i] : i \in 1..Len(email.to) } \cup email.cc

\* C19: in a dry run no message reaches the recipients of a job: without a
\* redirect address no send completes (with email alerts enabled every
\* send ends in the RuntimeError of EmailSender.send), and with a redirect
\* address every message goes to that address alone, with no CC.
C19_DryRunNeverReachesRecipients ==
  config.dry_run =>
    /\ config.dry_run_email = NoAddress =>
         /\ last_email = NoEmail
         /\ \A i \in 1..Len(outcomes) :
              /\ outcomes[i] # "sent"
              /\ config.enable_email_alerts => outcomes[i] = "raised"
         /\ \A i \in 1..Len(jobs) :
              EmailSenderSend(JobRecipients(jobs[i]), JobCc(jobs[i])) = "RuntimeError"
    /\ (config.dry_run_email # NoAddress /\ last_email # NoEmail) =>
         /\ last_email.to = <<config.dry_run_email>>
         /\ last_email.cc = {}
         /\ \A i \in 1..Len(jobs) :
              /\ jobs[i].recipients[1] \notin Addressees(last_email)
              /\ jobs[i].cc_recipients \cap Addressees(last_email) = {}

C19_Witness ==
  /\ config = RedirectConfig
  /\ pc = "sending"
  /\ jobIdx = 2
  /\ outcomes = <<"sent">>
  /\ last_email.to = <<DryRunEmail>>
  /\ jobs[1].cc_recipients # {}

\* the entries of email_routing whose domain occurs in the address
Matching(address) ==
  { i \in 1..Len(email_routing) :
      Contains(lower(email_routing[i].domain), lower(address)) }

\* C20: the CC list of every job holds the internal recipients; it is
\* exactly those when no routing domain occurs in the vessel's address,
\* and otherwise those together with the cc list of the first routing
\* domain that occurs in it.
C20_CcIsFirstDomainPlusInternal ==
  \A j \in 1..Len(jobs) :
    LET address == jobs[j].recipients[1]
        m == Matching(address)
    IN  /\ internal_recipients \subseteq jobs[j].cc_recipients
        /\ m = {} => jobs[j].cc_recipients = internal_recipients
        /\ m # {} =>
             LET first == CHOOSE i \in m : \A k \in m : i <= k
             IN  jobs[j].cc_recipients = email_routing[first].cc \cup internal_recipients

C20_Witness ==
  /\ Len(jobs) = 2
  /\ Len(email_routing) = 2
  /\ Matching(jobs[2].recipients[1]) = {1, 2}
  /\ email_routing[1].cc = {TechEmail, InternalEmail}
  /\ email_routing[2].cc = {OpsEmail}
  /\ internal_recipients = {InternalEmail, OpsEmail}
  /\ jobs[2].cc_recipients = {TechEmail, InternalEmail, OpsEmail}

\* C21: the key of a row is fixed by its identifying columns: rows of one
\* frame that are the same event have the same key whatever their other
\* columns hold, and when a later run fetches the same events again, at any
\* time and with other columns changed, every row gets the key it got before.
C21_KeyOfIdentifyingFieldsOnly ==
  /\ [](row_keys # <<>> =>
         \A i, j \in 1..Len(batch) :
           SameEvent(batch[i], batch[j]) => row_keys[i] = row_keys[j])
  /\ [][ row_keys # <<>> => row_keys' = row_keys ]_vars

C21_Witness ==
  /\ Len(batch) = 2
  /\ now > 0
  /\ SameEvent(batch[1], batch[2])
  /\ batch[1] # batch[2]
  /\ IsDocument(batch[1])
  /\ row_keys = <<AlertKey(batch[1]), AlertKey(batch[2])>>

\* C22 (as claimed): after a load that evicted at least one entry of the
\* file (expired, or with a timestamp that does not parse) the file holds
\* the ledger as it is in memory.
C22_EvictingLoadRewritesFile ==
  ( /\ call.op = "load"
    /\ ~call.raised
    /\ read_events.kind # "none"
    /\ window # None
    /\ \E k \in DOMAIN read_events.data :
         ~NotExpired(read_events.data[k], call.at - window) ) =>
      /\ file.kind = "json"
      /\ file.sent_events = sent_events

\* the scheduler is inside _run_all_alerts, or has just left it
InCycle == spc \in {"for_test", "calling", "in_runner", "cycle_done"}

\* C23: run_continuous computes the next run time and waits only when every
\* registered runner was started in the cycle, in order, and has returned
\* or raised; when the flag is set during the cycle the scheduler never
\* reaches the wait: it leaves the loop at the test that follows the cycle.
C23_SleepOnlyAfterFullCycle ==
  /\ [](spc \in {"next_run", "sleeping"} =>
         /\ mode = "continuous"
         /\ Started = alerts
         /\ \A i \in 1..Len(invoked) : invoked[i].outcome \in {"returned", "raised"})
  /\ [][ (mode = "continuous" /\ InCycle /\ shutdown_event) =>
           (InCycle' \/ (spc' = "stopped" /\ exit_at' = "after_cycle")) ]_vars
  /\ ((mode = "continuous" /\ InCycle /\ shutdown_event) ~>
        (spc = "stopped" /\ exit_at = "after_cycle"))

C23_Witness ==
  /\ spc = "sleeping"
  /\ Len(alerts) = 2
  /\ invoked[1].outcome = "raised"
  /\ invoked[2].outcome = "returned"

\* C24: an exception of the loop body of run_continuous is handled inside
\* the loop. Without a shutdown request the handler waits, the wait ends
\* only when the whole recovery interval has passed, and the loop then
\* starts another cycle. With a request before or during the wait the
\* scheduler stops and starts no cycle any more.
C24_LoopExceptionRecovers ==
  /\ [](spc \in {"recovery", "recovery_wait"} => (mode = "continuous" /\ exit_at = "none"))
  /\ [][ /\ (spc = "next_run" /\ spc' # spc) => spc' \in {"sleeping", "recovery"}
         /\ (spc = "recovery" /\ spc' # spc) =>
              IF shutdown_event THEN spc' = "while_test"
              ELSE spc' = "recovery_wait" /\ slept' = 0
         /\ (spc = "recovery_wait" /\ spc' # spc) =>
              IF shutdown_event THEN spc' = "stopped"
              ELSE slept = RecoveryTicks /\ spc' = "while_test"
         /\ (shutdown_event /\ spc \in {"recovery", "recovery_wait", "while_test"}) => ~InCycle'
       ]_vars
  /\ (spc = "recovery" ~> (InCycle \/ spc = "stopped"))
  /\ ((spc = "recovery" /\ shutdown_event) ~> spc = "stopped")

C24_Witness ==
  /\ spc = "recovery_wait"
  /\ slept = RecoveryTicks
  /\ ~shutdown_event
  /\ cycles = 1
  /\ alerts # <<>>

\* the step is the return of a run
RunReturns ==
  /\ run_result = "running"
  /\ run_result' \in {"true", "false"}

\* the commit of the run that returns has raised (the ledger write failed)
CommitRaised ==
  /\ call.op = "mark_saving"
  /\ call'.op = "mark"
  /\ call'.raised

\* C25 (as claimed): run never ends in an exception, and a run in which a
\* step, the formatting or the send of a job, or the ledger commit raised
\* returns False.
C25_AnyExceptionReturnsFalse ==
  /\ [](run_result \in {"none", "running", "true", "false"})
  /\ [][ (RunReturns /\ (CommitRaised \/ \E i \in 1..Len(outcomes) : outcomes[i] = "raised")) =>
           run_result' = "false" ]_vars

\* C25 (amended): run never ends in an exception. A run whose ledger commit
\* raised returns False; an exception while a job is formatted or sent is
\* caught in the loop of _send_notifications, the run goes on with the next
\* job, and it returns True exactly when some job completed and the commit
\* did not raise.
C25_RunNeverRaises ==
  /\ [](run_result \in {"none", "running", "true", "false"})
  /\ [][ /\ RunReturns => (run_result' = "true" <=> (any_sent /\ ~CommitRaised))
         /\ (pc = "sending" /\ Len(outcomes') > Len(outcomes) /\ outcomes'[Len(outcomes')] = "raised") =>
              /\ run_result' = "running"
              /\ jobIdx' = jobIdx + 1
              /\ any_sent' = any_sent
       ]_vars

C25_Witness ==
  /\ run_result = "false"
  /\ call.op = "mark"
  /\ call.raised
  /\ pc = "idle"
  /\ \E k \in Keys : lastDispatch[k] = run_time

\* the keys of the jobs of the run whose send completed
SentJobKeys ==
  UNION { JobKeys(jobs[i]) : i \in { j \in 1..Len(outcomes) : outcomes[j] = "sent" } }

AllJobKeys == UNION { JobKeys(jobs[i]) : i \in 1..Len(jobs) }

\* the run is a dry run and every one of its jobs was processed without error
DryRunWithoutError ==
  /\ config.dry_run
  /\ outcomes # <<>>
  /\ \A i \in 1..Len(outcomes) : outcomes[i] \in {"sent", "prepared"}

C28_ConcurrentWritersAtomic ==
  /\ [](file.kind \in {"missing", "json"})
  /\ [][ file' # file =>
           \E p \in Writers :
             /\ writers[p].pc = "save_move"
             /\ writers'[p].pc = "idle"
             /\ file' = JsonDump(writers[p].sent_events, now)
             /\ \A q \in Writers \ {p} : writers'[q] = writers[q]
       ]_vars

\* a key whose mark_as_sent returned in one process is gone from the file
\* after the write of the other
C28_Witness ==
  \E p, q \in Writers, k \in Keys :
    /\ p # q
    /\ writers[p].pc = "idle"
    /\ writers[q].pc = "idle"
    /\ k \in writers[p].returned
    /\ writers[q].returned # {}
    /\ file.kind = "json"
    /\ file.sent_events = writers[q].sent_events
    /\ k \notin DOMAIN file.sent_events

\* C29 (as claimed): a mark_as_sent whose file write fails raises, and
\* after it the ledger is what it was before the call: a key of the call
\* that was not in the ledger is not reported as sent and is not filtered
\* out, and every key of the ledger is in the file.
C29_FailedMarkLeavesLedger ==
  /\ (call.op = "mark" /\ call.writeFailed) => call.raised
  /\ (call.op = "mark" /\ call.raised) =>
       /\ sent_events = pre_events
       /\ \A k \in call.keys \ DOMAIN pre_events : ~is_sent(k)
       /\ \A df \in Batches :
            \A i \in 1..Len(df) :
              KeyFunc[df[i]] \in call.keys \ DOMAIN pre_events =>
                \E j \in 1..Len(FilterUnsent(df, KeyFunc)) : FilterUnsent(df, KeyFunc)[j] = df[i]
       /\ \A k \in call.keys :
            is_sent(k) => (file.kind = "json" /\ k \in DOMAIN file.sent_events)

\* C30: a job that fails in a cycle leaves none of its keys in the ledger;
\* in a later cycle of the process every fetched record with such a key is
\* returned by filter_unsent_events again and is in the data of a job of
\* that cycle; when a run returns, the keys of its jobs whose send
\* completed are in the ledger and the keys of its jobs that raised are not
C30_FailedJobRetriedUntilSent ==
  [][ /\ pc' \in {"idle", "sending"} =>
           \A k \in failed_keys'.keys : k \notin DOMAIN sent_events'
      /\ (pc = "idle" /\ batch' # <<>>) =>
           \A i \in 1..Len(batch') :
             get_tracking_key(batch'[i]) \in failed_keys.keys =>
               /\ \E u \in 1..Len(unsent') : unsent'[u] = batch'[i]
               /\ pc' = "sending"
               /\ \E j \in 1..Len(jobs') :
                    \E d \in 1..Len(jobs'[j].data) : jobs'[j].data[d] = batch'[i]
      /\ RunReturns =>
           \A i \in 1..Len(outcomes) :
             /\ outcomes[i] = "raised" =>
                  /\ JobKeys(jobs[i]) \subseteq failed_keys'.keys
                  /\ JobKeys(jobs[i]) \cap DOMAIN sent_events' = {}
             /\ outcomes[i] = "sent" =>
                  /\ JobKeys(jobs[i]) \subseteq DOMAIN sent_events'
                  /\ JobKeys(jobs[i]) \cap failed_keys'.keys = {}
    ]_vars

C30_Witness ==
  /\ pc = "sending"
  /\ jobIdx > Len(jobs)
  /\ \E i \in 1..Len(outcomes) :
       /\ outcomes[i] = "sent"
       /\ JobKeys(jobs[i]) \cap failed_keys.keys # {}
  /\ \E i \in 1..Len(outcomes) :
       /\ outcomes[i] = "raised"
       /\ JobKeys(jobs[i]) \cap failed_keys.keys # {}

====
